---------------------------- MODULE Spec2Model ----------------------------
(***************************************************************************)
(* Model of rag-azure-openai-cosmosdb-notebook.ipynb:                      *)
(*   - upsert_data_to_memory_store (cell 4), the ingestion helper that     *)
(*     cell 7 runs over the JSON data file;                                *)
(*   - the conversation loop of cell 10 (search, grounded streaming        *)
(*     completion, "exit" sentinel).                                       *)
(* The memory store, the embedding service and the chat service are the    *)
(* external collaborators the notebook calls; every call either returns    *)
(* or raises, and a raise that the notebook does not catch ends the cell.  *)
(***************************************************************************)
EXTENDS Integers, Sequences, FiniteSets, TLC

\* ------------------------------------------------------------------ bounds
MaxItems == 2
MaxRuns == 2
MaxTurns == 2
MaxFragments == 2

Ids == {1, 2}
Texts == {"a", "b"}

\* ------------------------------------------------------- embedding service
\* AzureTextEmbedding: a deterministic map from a text to a vector.  Vectors
\* are pairs of integers; distinct texts of the model get distinct vectors.
Embed(text) ==
    CASE text = "a" -> <<3, 1>>
      [] text = "b" -> <<1, 3>>
      [] text = "Hey" -> <<4, 2>>
      [] text = "exit" -> <<1, 2>>
      [] text = "Exit" -> <<2, 1>>
      [] OTHER -> <<-1, -3>>

\* ------------------------------------------------------------ memory store
\* A collection is a set of documents.  save_information builds the record
\* from the item and its embedding and upserts it by id.
Doc(id, text, description, vec) ==
    [id |-> id, text |-> text, description |-> description, embedding |-> vec]

GetNothing(s, id) == {}

\* store.get(collection, id): the documents with that id (none: a null result)
Get(s, id) == {d \in s : d.id = id}

TruthyInverted(r) == r = {}

TruthyAlways(r) == TRUE

\* bool(...) of what store.get returned
Truthy(r) == r # {}

Present(s, id) == Truthy(Get(s, id))

UpdateOnly(s, d) == IF Present(s, d.id) THEN {e \in s : e.id # d.id} \cup {d} ELSE s

\* store.upsert(collection, record): replaces the document with the record's id
Upsert(s, d) == {e \in s : e.id # d.id} \cup {d}

\* ------------------------------------------------------------------- state
VARIABLES
    store,            \* the collection in the memory store
    data,             \* json.load(f): the items of the data file
    pc,               \* position of upsert_data_to_memory_store
    n,                \* its item counter
    already_created,  \* its flag
    lookup,           \* how the last store.get ended
    embedding,        \* the vector save_information holds before the upsert
    error,            \* the exception that left the function, if any
    run,              \* how many times cell 7 has been started
    prevEnd,          \* the collection when the previous run ended
    prevDone,         \* whether the previous run returned normally
    runFault,         \* whether a call of the current run has raised
    embedCalls,       \* embedding calls of the current run, per id
    puts,             \* records the current run has written
    prevPuts,         \* records the previous run wrote
    cpc,              \* position of the conversation loop of cell 10
    query_term,       \* its query_term
    qvec,             \* the query vector memory.search holds
    result,           \* its result
    args,             \* the KernelArguments given to kernel.invoke_stream
    stream,           \* fragments completions_result has still to yield
    frags,            \* fragments of completions_result printed so far
    calls,            \* external calls made since the last input
    cerror,           \* the exception that left the loop, if any
    turn              \* inputs read so far

ingestVars == <<store, data, pc, n, already_created, lookup, embedding, error,
                run, prevEnd, prevDone, runFault, embedCalls, puts, prevPuts>>

chatVars == <<cpc, query_term, qvec, result, args, stream, frags, calls, cerror,
               turn>>

vars == <<ingestVars, chatVars>>

NoVec == <<>>

\* The items of the data file: an id, a content and a title that is another
\* text than the content.
Items == {it \in [id : Ids, content : Texts, title : Texts] : it.title # it.content}

RECURSIVE SeqsUpTo(_, _)
SeqsUpTo(S, k) ==
    IF k = 0 THEN {<<>>}
    ELSE LET shorter == SeqsUpTo(S, k - 1)
         IN shorter \cup {Append(q, x) : q \in {r \in shorter : Len(r) = k - 1}, x \in S}

\* Collections an earlier session of the notebook can have left behind: at
\* most one document per id, each with the embedding of its own text.
Collections ==
    {s \in SUBSET {Doc(i, t, u, Embed(t)) : i \in Ids, t \in Texts, u \in Texts} :
        \A d, e \in s : d.id = e.id => d = e}

item == data[n]

NoArgs == [query_term |-> "", db_record |-> [text |-> "", description |-> ""]]

\* cell 10 before its first statement
ChatIdle ==
    /\ cpc = "start"
    /\ query_term = ""
    /\ qvec = NoVec
    /\ result = <<>>
    /\ args = NoArgs
    /\ stream = 0
    /\ frags = 0
    /\ calls = <<>>
    /\ cerror = "none"
    /\ turn = 0

IngestInit ==
    /\ ChatIdle
    /\ store \in Collections
    /\ data \in SeqsUpTo(Items, MaxItems)
    /\ pc = "idle"
    /\ n = 0
    /\ already_created = FALSE
    /\ lookup = "none"
    /\ embedding = NoVec
    /\ error = "none"
    /\ run = 0
    /\ prevEnd = store
    /\ prevDone = FALSE
    /\ runFault = FALSE
    /\ embedCalls = [i \in Ids |-> 0]
    /\ puts = 0
    /\ prevPuts = 0

NextItemSkipping(k) ==
    IF k + 1 < Len(data)
    THEN /\ n' = k + 2
         /\ pc' = "get"
    ELSE /\ n' = Len(data)
         /\ pc' = "done"

\* for item in data: n += 1   (or the end of the loop and of the function)
NextItem(k) ==
    IF k < Len(data)
    THEN /\ n' = k + 1
         /\ pc' = "get"
    ELSE /\ n' = k
         /\ pc' = "done"

\* cell 7: await upsert_data_to_memory_store(memory, store, path)
StartIngest ==
    /\ pc \in {"idle", "done", "raised"}
    /\ UNCHANGED chatVars
    /\ run < MaxRuns
    /\ run' = run + 1
    /\ prevEnd' = store
    /\ prevDone' = (pc = "done")
    /\ runFault' = FALSE
    /\ embedCalls' = [i \in Ids |-> 0]
    /\ prevPuts' = puts
    /\ puts' = 0
    /\ error' = "none"
    /\ lookup' = "none"
    /\ already_created' = FALSE
    /\ embedding' = NoVec
    /\ NextItem(0)
    /\ UNCHANGED <<store, data>>

\* try: already_created = bool(await store.get(...)) -- the call returns
GetReturns ==
    /\ pc = "get"
    /\ UNCHANGED chatVars
    /\ lookup' = IF Get(store, item.id) # {} THEN "found" ELSE "empty"
    /\ already_created' = Truthy(Get(store, item.id))
    /\ pc' = "branch"
    /\ UNCHANGED <<store, data, n, embedding, error, run, prevEnd, prevDone,
                   runFault, embedCalls, puts, prevPuts>>

ExceptValueTrue == TRUE

\* the value the except branch gives already_created
ExceptValue == FALSE

GetRaisesUncaught ==
    /\ pc = "get"
    /\ UNCHANGED chatVars
    /\ lookup' = "raised"
    /\ error' = "get"
    /\ runFault' = TRUE
    /\ pc' = "raised"
    /\ UNCHANGED <<store, data, n, already_created, embedding, run, prevEnd,
                   prevDone, embedCalls, puts, prevPuts>>

\* except Exception: already_created = False -- the call raises
GetRaises ==
    /\ pc = "get"
    /\ UNCHANGED chatVars
    /\ lookup' = "raised"
    /\ already_created' = ExceptValue
    /\ runFault' = TRUE
    /\ pc' = "branch"
    /\ UNCHANGED <<store, data, n, embedding, error, run, prevEnd, prevDone,
                   embedCalls, puts, prevPuts>>

ShouldSaveInverted(flag) == flag

ShouldSaveAlways(flag) == TRUE

\* if not already_created:
ShouldSave(flag) == ~flag

\* if not already_created: await memory.save_information(...)  else: skip
Branch ==
    /\ pc = "branch"
    /\ UNCHANGED chatVars
    /\ IF ShouldSave(already_created)
       THEN /\ pc' = "embed"
            /\ n' = n
       ELSE NextItem(n)
    /\ UNCHANGED <<store, data, already_created, lookup, embedding, error, run,
                   prevEnd, prevDone, runFault, embedCalls, puts, prevPuts>>

EmbeddedTitle(it) == it.title

\* text=item["content"]: the text the embedding is generated from
EmbeddedText(it) == it.content

\* save_information: the embedding service returns the vector of the text
EmbedReturns ==
    /\ pc = "embed"
    /\ UNCHANGED chatVars
    /\ embedding' = Embed(EmbeddedText(item))
    /\ embedCalls' = [embedCalls EXCEPT ![item.id] = @ + 1]
    /\ pc' = "put"
    /\ UNCHANGED <<store, data, n, already_created, lookup, error, run, prevEnd,
                   prevDone, runFault, puts, prevPuts>>

EmbedRaisesSkipped ==
    /\ pc = "embed"
    /\ UNCHANGED chatVars
    /\ embedCalls' = [embedCalls EXCEPT ![item.id] = @ + 1]
    /\ runFault' = TRUE
    /\ NextItem(n)
    /\ UNCHANGED <<store, data, already_created, lookup, embedding, error, run,
                   prevEnd, prevDone, puts, prevPuts>>

\* save_information: the embedding service raises; nothing catches it
EmbedRaises ==
    /\ pc = "embed"
    /\ UNCHANGED chatVars
    /\ embedCalls' = [embedCalls EXCEPT ![item.id] = @ + 1]
    /\ error' = "embed"
    /\ runFault' = TRUE
    /\ pc' = "raised"
    /\ UNCHANGED <<store, data, n, already_created, lookup, embedding, run,
                   prevEnd, prevDone, puts, prevPuts>>

\* the record save_information writes: id, text, description and embedding
SavedRecord(it, vec) == Doc(it.id, it.content, it.title, vec)

\* save_information: the store upserts the record
PutReturns ==
    /\ pc = "put"
    /\ UNCHANGED chatVars
    /\ store' = Upsert(store, SavedRecord(item, embedding))
    /\ embedding' = NoVec
    /\ puts' = puts + 1
    /\ NextItem(n)
    /\ UNCHANGED <<data, already_created, lookup, error, run, prevEnd, prevDone,
                   runFault, embedCalls, prevPuts>>

\* save_information: the store raises on the upsert; nothing catches it
PutRaises ==
    /\ pc = "put"
    /\ UNCHANGED chatVars
    /\ error' = "put"
    /\ runFault' = TRUE
    /\ embedding' = NoVec
    /\ pc' = "raised"
    /\ UNCHANGED <<store, data, n, already_created, lookup, run, prevEnd,
                   prevDone, embedCalls, puts, prevPuts>>

IngestNext ==
    \/ StartIngest
    \/ GetReturns
    \/ GetRaises
    \/ Branch
    \/ EmbedReturns
    \/ EmbedRaises
    \/ PutReturns
    \/ PutRaises

IngestSpec == IngestInit /\ [][IngestNext]_vars

\* ------------------------------------------------------------------ search
Dot(u, v) == u[1] * v[1] + u[2] * v[2]

\* cosine(u, v) >= 0.7, the min_relevance_score memory.search asks for
Relevant(u, v) ==
    /\ Dot(u, v) >= 0
    /\ 100 * Dot(u, v) * Dot(u, v) >= 49 * Dot(u, u) * Dot(v, v)

Abs(x) == IF x < 0 THEN -x ELSE x

\* cosine(q, u) > cosine(q, v)
Closer(q, u, v) ==
    LET a == Dot(q, u) * Abs(Dot(q, u)) * Dot(v, v)
        b == Dot(q, v) * Abs(Dot(q, v)) * Dot(u, u)
    IN a > b

\* additional_metadata of a search result: the full stored record
Metadata(d) == [text |-> d.text, description |-> d.description]

QueryResult(d) ==
    [id |-> d.id, text |-> d.text, additional_metadata |-> Metadata(d)]

\* store.get_nearest_matches(collection, vector, limit=1, min_relevance_score=0.7):
\* the relevant document closest to the query vector, the lower id on a tie
NearestMatches(s, q) ==
    LET cand == {d \in s : Relevant(q, d.embedding)}
        best == {d \in cand : \A e \in cand :
                    e = d \/ Closer(q, d.embedding, e.embedding)
                          \/ (~Closer(q, e.embedding, d.embedding) /\ d.id < e.id)}
    IN IF best = {} THEN <<>> ELSE <<QueryResult(CHOOSE d \in best : TRUE)>>

\* ------------------------------------------------------- conversation loop
Inputs == {"exit", "Exit", "Hey", "zz"}

ChatInit ==
    /\ ChatIdle
    /\ store \in Collections
    /\ data = <<>>
    /\ pc = "idle"
    /\ n = 0
    /\ already_created = FALSE
    /\ lookup = "none"
    /\ embedding = NoVec
    /\ error = "none"
    /\ run = 0
    /\ prevEnd = store
    /\ prevDone = FALSE
    /\ runFault = FALSE
    /\ embedCalls = [i \in Ids |-> 0]
    /\ puts = 0
    /\ prevPuts = 0

\* query_term = ""
StartChat ==
    /\ cpc = "start"
    /\ UNCHANGED ingestVars
    /\ query_term' = ""
    /\ cpc' = "while"
    /\ UNCHANGED <<qvec, result, args, stream, frags, calls, cerror, turn>>

\* while query_term != "exit":
LoopTest ==
    /\ cpc = "while"
    /\ UNCHANGED ingestVars
    /\ cpc' = IF query_term # "exit" THEN "input" ELSE "done"
    /\ UNCHANGED <<query_term, qvec, result, args, stream, frags, calls, cerror,
                   turn>>

\* query_term = input("Enter a query: ")
ReadInput ==
    /\ cpc = "input"
    /\ UNCHANGED ingestVars
    /\ turn < MaxTurns
    /\ \E text \in Inputs : query_term' = text
    /\ turn' = turn + 1
    /\ calls' = <<>>
    /\ frags' = 0
    /\ cpc' = "embed"
    /\ UNCHANGED <<qvec, result, args, stream, cerror>>

\* memory.search: the embedding service returns the query vector
QueryEmbedReturns ==
    /\ cpc = "embed"
    /\ UNCHANGED ingestVars
    /\ qvec' = Embed(query_term)
    /\ calls' = Append(calls, "embed")
    /\ cpc' = "search"
    /\ UNCHANGED <<query_term, result, args, stream, frags, cerror, turn>>

QueryEmbedRaisesDefault ==
    /\ cpc = "embed"
    /\ UNCHANGED ingestVars
    /\ qvec' = <<0, 0>>
    /\ calls' = Append(calls, "embed")
    /\ cerror' = "embed"
    /\ cpc' = "search"
    /\ UNCHANGED <<query_term, result, args, stream, frags, turn>>

\* memory.search: the embedding service raises; nothing catches it
QueryEmbedRaises ==
    /\ cpc = "embed"
    /\ UNCHANGED ingestVars
    /\ calls' = Append(calls, "embed")
    /\ cerror' = "embed"
    /\ cpc' = "raised"
    /\ UNCHANGED <<query_term, qvec, result, args, stream, frags, turn>>

\* result = await memory.search(collection_name, query_term)
SearchReturns ==
    /\ cpc = "search"
    /\ UNCHANGED ingestVars
    /\ result' = NearestMatches(store, qvec)
    /\ qvec' = NoVec
    /\ calls' = Append(calls, "search")
    /\ cpc' = "invoke"
    /\ UNCHANGED <<query_term, args, stream, frags, cerror, turn>>

\* memory.search: the store raises; nothing catches it
SearchRaises ==
    /\ cpc = "search"
    /\ UNCHANGED ingestVars
    /\ calls' = Append(calls, "search")
    /\ cerror' = "search"
    /\ cpc' = "raised"
    /\ UNCHANGED <<query_term, qvec, result, args, stream, frags, turn>>

KernelArgumentsText(q, res) ==
    [query_term |-> q, db_record |-> [text |-> res[1].text]]

\* sk.KernelArguments(query_term=query_term, db_record=result[0].additional_metadata)
KernelArguments(q, res) ==
    [query_term |-> q, db_record |-> res[1].additional_metadata]

\* completions_result = kernel.invoke_stream(chat_function, sk.KernelArguments(...))
\* and the print of the question; result[0] of an empty result is an IndexError.
\* completions_result is a finite stream of up to MaxFragments fragments.
InvokeStream ==
    /\ cpc = "invoke"
    /\ UNCHANGED ingestVars
    /\ IF Len(result) = 0
       THEN /\ cerror' = "index"
            /\ cpc' = "raised"
            /\ args' = args
            /\ stream' = stream
       ELSE /\ args' = KernelArguments(query_term, result)
            /\ cpc' = "stream"
            /\ cerror' = cerror
            /\ \E k \in 0..MaxFragments : stream' = k
    /\ UNCHANGED <<query_term, qvec, result, frags, calls, turn>>

\* async for completion in completions_result: print(...) -- the first step
\* sends the rendered prompt to the chat service, each step yields a fragment
StreamFragment ==
    /\ cpc = "stream"
    /\ UNCHANGED ingestVars
    /\ stream > 0
    /\ stream' = stream - 1
    /\ frags' = frags + 1
    /\ calls' = IF frags = 0 THEN Append(calls, "complete") ELSE calls
    /\ UNCHANGED <<cpc, query_term, qvec, result, args, cerror, turn>>

\* the chat service raises at the invocation or in the stream; nothing
\* catches it
StreamRaises ==
    /\ cpc = "stream"
    /\ UNCHANGED ingestVars
    /\ calls' = IF frags = 0 THEN Append(calls, "complete") ELSE calls
    /\ cerror' = "completion"
    /\ cpc' = "raised"
    /\ UNCHANGED <<query_term, qvec, result, args, stream, frags, turn>>

StreamEndsEarly ==
    /\ cpc = "stream"
    /\ UNCHANGED ingestVars
    /\ calls' = IF frags = 0 THEN Append(calls, "complete") ELSE calls
    /\ cpc' = "while"
    /\ UNCHANGED <<query_term, qvec, result, args, stream, frags, cerror, turn>>

\* the stream is exhausted; print("\n"); time.sleep(5); back to the loop test
StreamEnds ==
    /\ cpc = "stream"
    /\ UNCHANGED ingestVars
    /\ stream = 0
    /\ calls' = IF frags = 0 THEN Append(calls, "complete") ELSE calls
    /\ cpc' = "while"
    /\ UNCHANGED <<query_term, qvec, result, args, stream, frags, cerror, turn>>

ChatNext ==
    \/ StartChat
    \/ LoopTest
    \/ ReadInput
    \/ QueryEmbedReturns
    \/ QueryEmbedRaises
    \/ SearchReturns
    \/ SearchRaises
    \/ InvokeStream
    \/ StreamFragment
    \/ StreamRaises
    \/ StreamEnds

ChatSpec == ChatInit /\ [][ChatNext]_vars

\* ---------------------------------------------------- the notebook in order
\* cell 7 is run once, from any collection and data file
RunCell7 == cpc = "start" /\ run = 0 /\ StartIngest

\* cell 10 is run after cell 7 has returned
RunCell10 == pc = "done" /\ StartChat

PipelineNext ==
    \/ RunCell7
    \/ GetReturns
    \/ GetRaises
    \/ Branch
    \/ EmbedReturns
    \/ EmbedRaises
    \/ PutReturns
    \/ PutRaises
    \/ RunCell10
    \/ LoopTest
    \/ ReadInput
    \/ QueryEmbedReturns
    \/ QueryEmbedRaises
    \/ SearchReturns
    \/ SearchRaises
    \/ InvokeStream
    \/ StreamFragment
    \/ StreamRaises
    \/ StreamEnds

PipelineSpec == IngestInit /\ [][PipelineNext]_vars

\* ------------------------------------------------------ ingestion: claims
OneRecordPerId(s) == \A d, e \in s : d.id = e.id => d = e

ContentEmbeddingConsistent ==
    \A d \in store : d.embedding # NoVec /\ d.embedding = Embed(d.text)

\* a run has just written a record whose title differs from its content
ConsistencyWitness ==
    /\ puts > 0
    /\ \E k \in 1..Len(data) :
          /\ data[k].title # data[k].content
          /\ SavedRecord(data[k], Embed(data[k].content)) \in store

\* the record ingest writes for an item of the file
Written(it) == SavedRecord(it, Embed(it.content)) \in store

\* C4: after a lookup that raised, the item counts as not created, it is
\* embedded and written (the lookup of the next item, or the end of the
\* function, is reached with its record stored), and the function is never
\* left by the lookup's exception.
LookupFaultDegradesToAbsent ==
    /\ (lookup = "raised" /\ pc = "branch") => ~already_created
    /\ (lookup = "raised" /\ pc = "get") => Written(data[n - 1])
    /\ (lookup = "raised" /\ pc = "done") => Written(data[n])
    /\ pc = "raised" => error \in {"embed", "put"}

\* the lookup of the first item raised although its id was stored with
\* another content; the item was rewritten and the second item is reached
LookupFaultWitness ==
    /\ lookup = "raised" /\ pc = "get" /\ n = 2
    /\ Written(data[1])
    /\ \E d \in prevEnd : d.id = data[1].id /\ d.text # data[1].content
    /\ run = 1

\* C5: an embedding call that does not deliver the item's vector ends the
\* function with the embedding error and leaves the collection as it was.
EmbedFailureWritesNothing ==
    [][(pc = "embed" /\ embedding' # Embed(item.content))
          => (pc' = "raised" /\ error' = "embed" /\ store' = store)]_vars

\* the embedding call of an absent item raised: the run is over with that
\* error and the item has no record
EmbedFailureWitness ==
    /\ pc = "raised" /\ error = "embed"
    /\ lookup = "empty"
    /\ ~Present(store, item.id)

\* C6 as stated: a put that raises does not end the batch while items remain.
PutFaultContinuesBatch ==
    ~(error = "put" /\ pc = "raised" /\ n < Len(data))

\* ----------------------------------------------- conversation loop: claims
\* C7 as stated: after the input "exit" has been read, no embedding, search
\* or completion call is made for it.
SentinelSkipsTurn ==
    (turn > 0 /\ query_term = "exit") => (calls = <<>> /\ cpc \in {"while", "done"})

\* C8 as stated: the loop never takes the first element of an empty result.
EmptyRetrievalSafe ==
    ~(cpc = "raised" /\ cerror = "index")

CompletionFaultKeepsSession ==
    ~(cpc = "raised" /\ cerror = "completion")

\* C11 as stated, its termination half: once the input "exit" has been read
\* and no provider has faulted, the loop does not end by an exception.
ExitReachesDone ==
    ~(turn > 0 /\ query_term = "exit" /\ cpc = "raised" /\ cerror = "index")

TurnCalls == <<"embed", "search", "complete">>

\* C12: the calls of a turn are a prefix of embed, search, complete; and
\* whenever the loop is outside the async for (testing the sentinel, reading
\* input, retrieving, building the next stream) or has ended normally, the
\* completion stream has no fragment left: one stream at a time, consumed to
\* its end before the next input.
TurnOrderNoCancellation ==
    /\ Len(calls) <= Len(TurnCalls)
    /\ \A k \in 1..Len(calls) : calls[k] = TurnCalls[k]
    /\ cpc \in {"while", "input", "embed", "search", "invoke", "done"} => stream = 0
    /\ (cpc \in {"while", "input", "done"} /\ turn > 0) => calls = TurnCalls

\* the loop is about to read the second input after a turn that made the
\* three calls and printed a stream of MaxFragments fragments
TurnOrderWitness ==
    /\ cpc = "input" /\ turn = 1
    /\ calls = TurnCalls
    /\ frags = MaxFragments /\ stream = 0

\* C13: an id that is in the collection, or whose put is returning, is in the
\* collection after the step (so it stays there in every later state); and
\* when a run has returned without any fault every id of the file is in the
\* collection, where search looks for its candidates.
WrittenStaysVisible ==
    /\ [][\A i \in Ids :
            (Present(store, i) \/ (pc = "put" /\ pc' # "raised" /\ item.id = i))
                => Present(store', i)]_vars
    /\ []((pc = "done" /\ ~runFault)
            => \A k \in 1..Len(data) : Present(store, data[k].id))

\* a fault-free run over two items with different ids has returned from an
\* initially empty collection
WrittenWitness ==
    /\ pc = "done" /\ ~runFault /\ run = 1
    /\ prevEnd = {}
    /\ puts = 2
    /\ Present(store, 1) /\ Present(store, 2)

\* C14 as stated: no step of ingestion or of the conversation loop removes or
\* changes a record of the collection.
StoreNeverMutated ==
    [][\A d \in store : d \in store']_vars

\* C14 amended: the conversation loop and every step of ingestion but the put
\* leave the collection as it is; the put keeps every record except the one
\* with the item's id when the lookup of that id raised, which it replaces by
\* the item's record.
StoreFrame ==
    [][/\ (pc # "put" \/ cpc # "start") => store' = store
       /\ \A d \in store :
            d \in store' \/ (pc = "put" /\ lookup = "raised" /\ d.id = item.id)]_vars

\* ingestion has added records beside the ones it found, all of which are
\* still there after a full conversation turn
StoreFrameWitness ==
    /\ puts > 0
    /\ prevEnd # {} /\ prevEnd \subseteq store
    /\ cpc = "while" /\ turn = 1 /\ calls = TurnCalls

\* C15: once the embedding of a query has failed the loop is over, and the
\* only call made for that query is the failed embedding call: no search, no
\* completion, no query vector.
QueryEmbedFaultIsFatal ==
    cerror = "embed" =>
        /\ cpc = "raised"
        /\ calls = <<"embed">>
        /\ qvec = NoVec

\* the embedding of the second query failed after a first turn that was
\* answered from a stored record
QueryEmbedFaultWitness ==
    /\ cerror = "embed" /\ cpc = "raised"
    /\ turn = 2
    /\ store # {}
    /\ args.query_term \in {"Hey", "Exit"}
    /\ query_term = "zz"

RECURSIVE SumOver(_, _)
SumOver(f, S) ==
    IF S = {} THEN 0
    ELSE LET x == CHOOSE y \in S : TRUE IN f[x] + SumOver(f, S \ {x})

\* C16: the items are taken one at a time in the order of the file (n goes
\* up by one, from 1); for each item the lookup comes first, the embedding
\* call only after the lookup of the same item, the put only after the
\* embedding call of the same item with its vector; a run never has more
\* embedding calls than items started, so no two are in flight.
SequentialIngestion ==
    /\ [][/\ n' # n =>
               /\ pc' = "get"
               /\ \/ pc \in {"branch", "put"} /\ n' = n + 1
                  \/ pc \in {"idle", "done", "raised"} /\ n' = 1
          /\ pc = "get" => (pc' = "branch" /\ n' = n)
          /\ (pc' = "embed" /\ pc # "embed") =>
               (pc = "branch" /\ n' = n /\ lookup \in {"empty", "raised"})
          /\ pc' = "put" =>
               (pc = "embed" /\ n' = n /\ embedding' = Embed(item.content))]_vars
    /\ [](/\ SumOver(embedCalls, Ids) <= n
          /\ puts <= SumOver(embedCalls, Ids)
          /\ pc = "done" => n = Len(data))

\* the second item is being written after the first item was looked up,
\* embedded and written
SequentialWitness ==
    /\ pc = "put" /\ n = 2 /\ run = 1
    /\ puts = 1
    /\ SumOver(embedCalls, Ids) = 2
    /\ Written(data[1])

FirstWith(i) == data[CHOOSE k \in 1..Len(data) :
                        data[k].id = i /\ \A j \in 1..(k - 1) : data[j].id # i]

\* C18: in a run in which no call has raised, no id has had more than one
\* embedding call, and when the run has returned, every id of the file that
\* the collection did not hold at the start of the run is stored with the
\* record of its first item in the file.
FirstOccurrenceWins ==
    ~runFault =>
        /\ \A i \in Ids : embedCalls[i] <= 1
        /\ pc = "done" =>
             \A i \in Ids :
                 ((\E k \in 1..Len(data) : data[k].id = i) /\ ~Present(prevEnd, i))
                     => Written(FirstWith(i))

\* a fault-free run has returned over a file whose two items share an id,
\* absent at the start, and differ in content
FirstOccurrenceWitness ==
    /\ pc = "done" /\ ~runFault /\ run = 1
    /\ Len(data) = 2
    /\ data[1].id = data[2].id /\ data[1].content # data[2].content
    /\ ~Present(prevEnd, data[1].id)
    /\ embedCalls[data[1].id] = 1
    /\ Written(data[1]) /\ ~Written(data[2])

\* C19: after the lookup the item counts as already created exactly when
\* the lookup returned a record; a lookup that returned nothing and a lookup
\* that raised both lead to the embedding call and the put, a lookup that
\* returned a record to neither.
ExistenceDecision ==
    /\ pc = "branch" => (already_created <=> lookup = "found")
    /\ pc = "branch" => (lookup = "found" <=> Present(store, item.id)) \/ lookup = "raised"
    /\ pc \in {"embed", "put"} => lookup \in {"empty", "raised"}
    /\ (pc \in {"get", "done"} /\ lookup \in {"empty", "raised"} /\ n > 0)
          => puts > 0

\* both ways of counting as absent have led to a write in one run: the lookup
\* of the first item returned nothing, the lookup of the second raised
ExistenceWitness ==
    /\ pc = "done" /\ n = 2 /\ puts = 2
    /\ lookup = "raised"
    /\ ~Present(prevEnd, data[1].id)
    /\ data[1].id # data[2].id
    /\ Present(prevEnd, data[2].id)

=============================================================================
